---- MODULE Spec2Model ----
(***************************************************************************)
(* Model of the alpm local-package code:                                   *)
(*   src/src/db/mod.rs            DbStatus, DbUsage, SignatureLevel         *)
(*   src/src/db/local/package.rs  Package::from_local, total_size,          *)
(*                                validate, PackageDesc, FileType           *)
(*   src/src/alpm_desc/de_error.rs  ErrorKind of the desc decoder           *)
(*                                                                         *)
(* Five specifications share the variables; each one leaves the variables  *)
(* of the others at their initial value:                                   *)
(*   SpecDb        the database status / usage / signature level data      *)
(*   SpecDecode    de::from_str::<PackageDesc> applied to a desc text       *)
(*   SpecLoad      Package::from_local                                     *)
(*   SpecSize      Package::total_size                                     *)
(*   SpecValidate  Package::validate, one loop iteration per step          *)
(***************************************************************************)
EXTENDS Integers, Sequences, FiniteSets, TLC

VARIABLES
    status,      \* db/mod.rs: a DbStatus value
    usage,       \* db/mod.rs: the bits of a DbUsage value
    sig_level,   \* db/mod.rs: a SignatureLevel value
    desc_raw,    \* the text handed to de::from_str
    decoded,     \* the Result of de::from_str::<PackageDesc>
    call,        \* the arguments of from_local and the two files under `path`
    loaded,      \* the Result<Package, Error> of from_local
    files,       \* Package.files, the manifest total_size runs over
    size_result, \* the Result<u64, io::Error> of total_size
    vpc,         \* validate: "idle", "loop" or "done"
    iter,        \* validate: the entries self.files() has not yet yielded
    file,        \* validate: the entry of the current iteration, if any
    node,        \* validate: what is on disk at file.path() when it is stat-ed
    errors,      \* validate: the local Vec<ValidationError>
    vresult      \* validate: the io::Result<Vec<ValidationError>> returned

vars == <<status, usage, sig_level, desc_raw, decoded, call, loaded, files,
          size_result, vpc, iter, file, node, errors, vresult>>

dbVars == <<status, usage, sig_level>>
notDbVars == <<desc_raw, decoded, call, loaded, files, size_result,
               vpc, iter, file, node, errors, vresult>>
decodeVars == <<desc_raw, decoded>>
loadVars == <<call, loaded>>
sizeVars == <<files, size_result>>
validateVars == <<vpc, iter, file, node, errors, vresult>>

\* Option<T> and Result<T, E> values, and a call that has not returned yet
None == [some |-> FALSE]
Some(v) == [some |-> TRUE, val |-> v]
Ok(v) == [tag |-> "Ok", val |-> v]
Pending == [tag |-> "Pending"]

-----------------------------------------------------------------------------
(* Bounds of the model.                                                    *)

\* longest manifest (Package.files) the model loads
MaxFiles == 2
\* how many sections a desc text may lack
MaxMissing == 2

-----------------------------------------------------------------------------
(* db/mod.rs: DbStatus, DbUsage, SignatureLevel                            *)

RECURSIVE BitOr(_, _)
BitOr(a, b) ==
    IF a = 0 THEN b
    ELSE IF b = 0 THEN a
    ELSE (IF a % 2 = 1 \/ b % 2 = 1 THEN 1 ELSE 0) + 2 * BitOr(a \div 2, b \div 2)

RECURSIVE BitAnd(_, _)
BitAnd(a, b) ==
    IF a = 0 \/ b = 0 THEN 0
    ELSE (IF a % 2 = 1 /\ b % 2 = 1 THEN 1 ELSE 0) + 2 * BitAnd(a \div 2, b \div 2)

SYNC == 1
SEARCH == 2
INSTALL == 4
\* UPGRADE given the bit of INSTALL
UPGRADE_Dup == INSTALL
UPGRADE == 8
ALL == BitOr(BitOr(BitOr(SYNC, SEARCH), INSTALL), UPGRADE)

DbUsageFlags == {SYNC, SEARCH, INSTALL, UPGRADE}

DbUsage_default == ALL

SignatureLevels == {"Inherit", "Optional", "MarginalOk", "UnknownOk"}
SignatureLevel_default == "Inherit"

DbStatuses == {[tag |-> "Missing"]} \cup {[tag |-> "Exists", valid |-> v] : v \in BOOLEAN}

\* bitflags: self.bits & other.bits == other.bits
Contains(a, b) == BitAnd(a, b) = b

\* bitflags: self.bits |= other.bits
Insert(flag) ==
    /\ usage' = BitOr(usage, flag)
    /\ UNCHANGED <<status, sig_level, notDbVars>>

\* bitflags: self.bits &= !other.bits
Remove(flag) ==
    /\ usage' = usage - BitAnd(usage, flag)
    /\ UNCHANGED <<status, sig_level, notDbVars>>

DefaultUsage ==
    /\ usage' = DbUsage_default
    /\ UNCHANGED <<status, sig_level, notDbVars>>

DefaultSignatureLevel ==
    /\ sig_level' = SignatureLevel_default
    /\ UNCHANGED <<status, usage, notDbVars>>

\* SignatureLevel is Copy: a plain assignment of any of its values
SetSignatureLevel(l) ==
    /\ sig_level' = l
    /\ UNCHANGED <<status, usage, notDbVars>>

\* DbStatus is a snapshot the database layer recomputes on demand
SetStatus(s) ==
    /\ status' = s
    /\ UNCHANGED <<usage, sig_level, notDbVars>>

InitDb ==
    /\ status = [tag |-> "Missing"]
    /\ usage = DbUsage_default
    /\ sig_level = SignatureLevel_default

-----------------------------------------------------------------------------
(* alpm_desc: the desc text format and de::from_str::<PackageDesc>.        *)
(* A token (one value line) is a sequence of characters; a text is a       *)
(* sequence of sections, each a key line followed by its value lines.      *)

Digits == <<"0", "1", "2", "3", "4", "5", "6", "7", "8", "9">>

DigitValue(c) == (CHOOSE i \in 1..Len(Digits) : Digits[i] = c) - 1

IsDigit(c) == \E i \in 1..Len(Digits) : Digits[i] = c

\* alpm_desc::de_error::ErrorKind, as the error of a decode
DeErr(kind) == [tag |-> "Err", kind |-> kind]

RECURSIVE ParseDigits(_, _)
ParseDigits(tok, acc) ==
    IF tok = <<>> THEN acc
    ELSE ParseDigits(Tail(tok), 10 * acc + DigitValue(Head(tok)))

\* an unsigned integer target: the token parsed as decimal digits
ParseUnsigned(tok) ==
    IF tok # <<>> /\ \A i \in 1..Len(tok) : IsDigit(tok[i])
    THEN Ok(ParseDigits(tok, 0))
    ELSE DeErr([tag |-> "ExpectedUnsigned"])

\* package.rs: enum Reason, its serde tags "0" and "1"
ParseReason(tok) ==
    IF tok = <<"0">> THEN Ok("Explicit")
    ELSE IF tok = <<"1">> THEN Ok("Depend")
    ELSE DeErr([tag |-> "Custom", msg |-> "unknown variant"])

\* package.rs: enum Validation, its serde tags
ParseValidation(tok) ==
    IF tok = <<"n", "o", "n", "e">> THEN Ok("None")
    ELSE IF tok = <<"m", "d", "5">> THEN Ok("Md5")
    ELSE IF tok = <<"s", "h", "a", "2", "5", "6">> THEN Ok("Sha256")
    ELSE IF tok = <<"p", "g", "p">> THEN Ok("Pgp")
    ELSE DeErr([tag |-> "Custom", msg |-> "unknown variant"])

\* package.rs: struct PackageDesc, one entry per field in declaration order:
\* the serde name (after rename), the kind of the target and whether the
\* field carries #[serde(default)]
PackageDesc == <<
    [name |-> "name",       kind |-> "String",        default |-> FALSE],
    [name |-> "version",    kind |-> "String",        default |-> FALSE],
    [name |-> "base",       kind |-> "OptString",     default |-> FALSE],
    [name |-> "desc",       kind |-> "String",        default |-> FALSE],
    [name |-> "groups",     kind |-> "VecString",     default |-> TRUE],
    [name |-> "url",        kind |-> "String",        default |-> FALSE],
    [name |-> "license",    kind |-> "OptString",     default |-> FALSE],
    [name |-> "arch",       kind |-> "String",        default |-> FALSE],
    [name |-> "packager",   kind |-> "String",        default |-> FALSE],
    [name |-> "reason",     kind |-> "OptReason",     default |-> FALSE],
    [name |-> "validation", kind |-> "VecValidation", default |-> FALSE],
    [name |-> "size",       kind |-> "U64",           default |-> FALSE],
    [name |-> "replaces",   kind |-> "VecString",     default |-> TRUE],
    [name |-> "depends",    kind |-> "VecString",     default |-> TRUE],
    [name |-> "optdepends", kind |-> "VecString",     default |-> TRUE],
    [name |-> "conflicts",  kind |-> "VecString",     default |-> TRUE],
    [name |-> "provides",   kind |-> "VecString",     default |-> TRUE] >>

FieldNames == {PackageDesc[i].name : i \in 1..Len(PackageDesc)}

Field(f) == PackageDesc[CHOOSE i \in 1..Len(PackageDesc) : PackageDesc[i].name = f]

OptionKinds == {"OptString", "OptReason"}
VecKinds == {"VecString", "VecValidation"}

\* the key lines of well-formed shape `%KEY%`, and the field name each one
\* is handed to the target record under
KeyLines == [name |-> "%NAME%", version |-> "%VERSION%", base |-> "%BASE%",
             desc |-> "%DESC%", groups |-> "%GROUPS%", url |-> "%URL%",
             license |-> "%LICENSE%", arch |-> "%ARCH%",
             packager |-> "%PACKAGER%", reason |-> "%REASON%",
             validation |-> "%VALIDATION%", size |-> "%SIZE%",
             replaces |-> "%REPLACES%", depends |-> "%DEPENDS%",
             optdepends |-> "%OPTDEPENDS%", conflicts |-> "%CONFLICTS%",
             provides |-> "%PROVIDES%", xdata |-> "%XDATA%"]

IsKeyLine(line) == \E f \in DOMAIN KeyLines : KeyLines[f] = line

KeyName(line) == CHOOSE f \in DOMAIN KeyLines : KeyLines[f] = line

RECURSIVE DecodeSeq(_, _, _)
DecodeSeq(kind, lines, acc) ==
    IF lines = <<>> THEN Ok(acc)
    ELSE LET v == IF kind = "VecValidation" THEN ParseValidation(Head(lines))
                  ELSE Ok(Head(lines))
         IN  IF v.tag = "Err" THEN v
             ELSE DecodeSeq(kind, Tail(lines), Append(acc, v.val))

\* one section decoded into a target of the given kind.  A scalar target
\* takes one value line; a further line stands where a key line is expected.
DecodeValue(kind, lines) ==
    IF kind \in VecKinds THEN DecodeSeq(kind, lines, <<>>)
    ELSE IF Len(lines) # 1 THEN DeErr([tag |-> "ExpectedKey"])
    ELSE LET tok == lines[1] IN
         CASE kind = "String" -> Ok(tok)
           [] kind = "OptString" -> Ok(Some(tok))
           [] kind = "U64" -> ParseUnsigned(tok)
           [] kind = "OptReason" ->
                LET r == ParseReason(tok) IN
                IF r.tag = "Err" THEN r ELSE Ok(Some(r.val))

\* #[derive(Deserialize)] on PackageDesc: a field no section set.  An Option
\* field becomes None, a #[serde(default)] field its Default (the empty Vec),
\* any other field is the error `missing field`, raised through
\* de::Error::custom.
MissingField(f) ==
    IF Field(f).kind \in OptionKinds THEN Ok(None)
    ELSE IF Field(f).default THEN Ok(<<>>)
    ELSE DeErr([tag |-> "Custom", msg |-> "missing field", field |-> f])

\* the end of the record: every field no section set is filled in, the
\* first one that cannot be is the error
Finish(acc) ==
    LET bad == {i \in 1..Len(PackageDesc) :
                    /\ ~acc[PackageDesc[i].name].some
                    /\ MissingField(PackageDesc[i].name).tag = "Err"}
    IN  IF bad # {}
        THEN MissingField(PackageDesc[CHOOSE i \in bad : \A j \in bad : i <= j].name)
        ELSE Ok([f \in FieldNames |->
                    IF acc[f].some THEN acc[f].val ELSE MissingField(f).val])

\* the sections visited in the order seen: a line that is no key line is
\* ExpectedKey, an unknown key is skipped, a key seen twice is an error
RECURSIVE VisitMap(_, _)
VisitMap(secs, acc) ==
    IF secs = <<>> THEN Finish(acc)
    ELSE LET s == Head(secs) IN
         IF ~IsKeyLine(s.key) THEN DeErr([tag |-> "ExpectedKey"])
         ELSE LET f == KeyName(s.key) IN
              IF f \notin FieldNames THEN VisitMap(Tail(secs), acc)
              ELSE IF acc[f].some
              THEN DeErr([tag |-> "Custom", msg |-> "duplicate field", field |-> f])
              ELSE LET v == DecodeValue(Field(f).kind, s.lines) IN
                   IF v.tag = "Err" THEN v
                   ELSE VisitMap(Tail(secs), [acc EXCEPT ![f] = Some(v.val)])

\* de::from_str::<PackageDesc>(text)
from_str(text) == VisitMap(text, [f \in FieldNames |-> None])

-----------------------------------------------------------------------------
(* The desc texts of the model.                                            *)

NameA == <<"a">>
NameB == <<"b">>
Version1 == <<"1", ".", "0">>
Version2 == <<"2", ".", "0">>
Names == {NameA, NameB}
Versions == {Version1, Version2}
ReasonTokens == {<<"0">>, <<"1">>, <<"2">>}
SizeTokens == {<<"1", "2">>, <<"x">>}
Sha256Token == <<"s", "h", "a", "2", "5", "6">>

Section(f, lines) == [key |-> KeyLines[f], lines |-> lines]

\* a text with every section of PackageDesc, in declaration order
FullText(n, v, r, sz) == <<
    Section("name", <<n>>),
    Section("version", <<v>>),
    Section("base", <<<<"b", "a", "s", "e">>>>),
    Section("desc", <<<<"d">>>>),
    Section("groups", <<<<"g", "1">>, <<"g", "2">>>>),
    Section("url", <<<<"u">>>>),
    Section("license", <<<<"G", "P", "L">>>>),
    Section("arch", <<<<"x", "8", "6">>>>),
    Section("packager", <<<<"p">>>>),
    Section("reason", <<r>>),
    Section("validation", <<Sha256Token>>),
    Section("size", <<sz>>),
    Section("replaces", <<<<"r">>>>),
    Section("depends", <<<<"l", "1">>, <<"l", "2">>>>),
    Section("optdepends", <<<<"o">>>>),
    Section("conflicts", <<<<"c">>>>),
    Section("provides", <<<<"v">>>>) >>

RECURSIVE SubsetsUpTo(_, _)
SubsetsUpTo(S, k) ==
    IF k = 0 THEN {{}}
    ELSE LET P == SubsetsUpTo(S, k - 1) IN P \cup {p \cup {x} : p \in P, x \in S}

Without(text, missing) ==
    SelectSeq(text, LAMBDA s : KeyName(s.key) \notin missing)

FullTexts ==
    {FullText(n, v, r, sz) :
        n \in Names, v \in Versions, r \in ReasonTokens, sz \in SizeTokens}

\* full texts with some sections left out
LackingTexts ==
    {Without(t, m) : t \in FullTexts, m \in SubsetsUpTo(FieldNames, MaxMissing)}

\* texts with a section of an unknown key, with a section given twice, with
\* a second value line under a scalar key, with a key line of the wrong shape
OddTexts ==
    UNION {{Append(t, Section("xdata", <<<<"x">>>>)),
            Append(t, Section("name", <<NameA>>)),
            <<Section("name", <<NameA, NameB>>)>> \o Tail(t),
            <<[key |-> "NAME", lines |-> <<NameA>>]>> \o Tail(t)}
           : t \in {FullText(n, Version1, <<"0">>, <<"1", "2">>) : n \in Names}}

Texts == LackingTexts \cup OddTexts

-----------------------------------------------------------------------------
(* SpecDecode: de::from_str::<PackageDesc> applied to a text.              *)

InitOthersDecode ==
    /\ desc_raw = <<>>
    /\ decoded = Pending

FromStr ==
    /\ decoded = Pending
    /\ decoded' = from_str(desc_raw)
    /\ UNCHANGED <<desc_raw, dbVars, loadVars, sizeVars, validateVars>>

-----------------------------------------------------------------------------
(* package.rs: Package::from_local                                         *)

\* a manifest entry as the model keeps it: mtree::Entry's path(),
\* file_type() and size()
Entry(path, file_type, size) ==
    [path |-> path, file_type |-> file_type, size |-> size]

\* a failure of from_local whose kind is ErrorKind::InvalidLocalPackage(name)
InvalidLocalPackage(name, cause) ==
    [tag |-> "Err",
     kind |-> [tag |-> "InvalidLocalPackage", name |-> name],
     cause |-> cause]

\* the `?` on a lower-level error: Error::from(e), which sees only e
ErrorFrom(e) ==
    [tag |-> "Err", kind |-> [tag |-> "Lower"], cause |-> e]

\* the decode with a bare `?`, its error not given the context
DecodeDesc_NoContext(raw, name) ==
    LET d == from_str(raw) IN
    IF d.tag = "Err" THEN ErrorFrom(d.kind) ELSE d

\* lines 29-30: de::from_str(&desc_raw).context(InvalidLocalPackage(name))?
DecodeDesc(raw, name) ==
    LET d == from_str(raw) IN
    IF d.tag = "Err" THEN InvalidLocalPackage(name, d.kind) ELSE d

\* the check without the comparison of the versions
CheckNameVersion_NameOnly(desc, name, version) ==
    IF desc.name # name
    THEN InvalidLocalPackage(name, [tag |-> "NameMismatch"])
    ELSE Ok(desc)

\* lines 33-41: check package name/version with path
CheckNameVersion(desc, name, version) ==
    IF desc.name # name
    THEN InvalidLocalPackage(name, [tag |-> "NameMismatch"])
    ELSE IF desc.version # version
    THEN InvalidLocalPackage(name, [tag |-> "VersionMismatch"])
    ELSE Ok(desc)

\* .collect::<Result<_, _>>(): the entries up to the first item that is an
\* error, which is then the result
RECURSIVE Collect(_, _)
Collect(items, acc) ==
    IF items = <<>> THEN Ok(acc)
    ELSE IF Head(items).tag = "Err" THEN Head(items)
    ELSE Collect(Tail(items), Append(acc, Head(items).val))

\* lines 44-45: open `mtree`, read the gzip header, collect the entries
ReadMtree(mtree_file) ==
    IF mtree_file.tag # "Stream" THEN ErrorFrom(mtree_file.err)
    ELSE LET r == Collect(mtree_file.items, <<>>) IN
         IF r.tag = "Err" THEN ErrorFrom(r.err) ELSE r

from_local(path, name, version, desc_file, mtree_file) ==
    IF desc_file.tag = "Err" THEN ErrorFrom(desc_file.err)
    ELSE LET d == DecodeDesc(desc_file.val, name) IN
         IF d.tag = "Err" THEN d
         ELSE LET c == CheckNameVersion(d.val, name, version) IN
              IF c.tag = "Err" THEN c
              ELSE LET m == ReadMtree(mtree_file) IN
                   IF m.tag = "Err" THEN m
                   ELSE Ok([path |-> path, desc |-> d.val, files |-> m.val])

IoErr(e) == [tag |-> "Err", err |-> e]

\* what fs::read_to_string(path.join("desc")) can return: an I/O error, or
\* a text that is full, odd, or lacks one section
LoadTexts ==
    FullTexts \cup OddTexts
        \cup {Without(FullText(NameA, Version1, <<"0">>, <<"1", "2">>), {f}) :
                f \in FieldNames}

DescFiles ==
    {IoErr(e) : e \in {"NotFound", "PermissionDenied", "InvalidData"}}
        \cup {Ok(t) : t \in LoadTexts}

RECURSIVE SeqsUpTo(_, _)
SeqsUpTo(S, n) ==
    IF n = 0 THEN {<<>>}
    ELSE LET P == SeqsUpTo(S, n - 1) IN
         P \cup {Append(p, x) : p \in {q \in P : Len(q) = n - 1}, x \in S}

\* what the MTree iterator can yield
LoadItems ==
    {Ok(Entry("./lib.so", Some("File"), Some(100))),
     Ok(Entry("./bin", Some("Directory"), None)),
     IoErr("InvalidData")}

\* the `mtree` file: it cannot be opened, its gzip header cannot be read, or
\* it is a stream of items
MtreeFiles ==
    {[tag |-> "OpenErr", err |-> "NotFound"],
     [tag |-> "GzipErr", err |-> "InvalidInput"]}
        \cup {[tag |-> "Stream", items |-> i] : i \in SeqsUpTo(LoadItems, MaxFiles)}

PackageDirs == {"local/a-1.0"}

NoCall == [tag |-> "None"]

InitOthersLoad ==
    /\ call = NoCall
    /\ loaded = Pending

FromLocal(path, name, version, desc_file, mtree_file) ==
    /\ loaded = Pending
    /\ call' = [path |-> path, name |-> name, version |-> version,
                desc_file |-> desc_file, mtree_file |-> mtree_file]
    /\ loaded' = from_local(path, name, version, desc_file, mtree_file)
    /\ UNCHANGED <<dbVars, decodeVars, sizeVars, validateVars>>

-----------------------------------------------------------------------------
(* package.rs: FileType and its conversions                                *)

\* impl From<mtree::FileType> for FileType
FileType_from_mtree(f) ==
    IF f = "File" THEN "File"
    ELSE IF f = "Directory" THEN "Directory"
    ELSE IF f = "SymbolicLink" THEN "SymbolicLink"
    ELSE "Other"

\* std::fs::FileType, held as the file-type bits of st_mode
is_file(f) == f = "S_IFREG"
is_dir(f) == f = "S_IFDIR"
is_symlink(f) == f = "S_IFLNK"

\* impl From<fs::FileType> for FileType
FileType_from_fs(f) ==
    IF is_file(f) THEN "File"
    ELSE IF is_dir(f) THEN "Directory"
    ELSE IF is_symlink(f) THEN "SymbolicLink"
    ELSE "Other"

-----------------------------------------------------------------------------
(* package.rs: Package::total_size                                         *)

ReservedPaths == {"./.PKGINFO", "./.BUILDINFO", "./.INSTALL"}

\* the skip condition without ./.INSTALL
Skipped_NoInstall(entry) ==
    \/ entry.path = "./.PKGINFO"
    \/ entry.path = "./.BUILDINFO"
    \/ ~(entry.file_type = Some("File"))

\* lines 150-157: the entries the loop skips
Skipped(entry) ==
    \/ entry.path = "./.PKGINFO"
    \/ entry.path = "./.BUILDINFO"
    \/ entry.path = "./.INSTALL"
    \/ ~(entry.file_type = Some("File"))

\* the loop of lines 148-163 over the entries left, acc being the local
RECURSIVE TotalSizeLoop(_, _)
TotalSizeLoop(rest, acc) ==
    IF rest = <<>> THEN acc
    ELSE LET entry == Head(rest) IN
         IF Skipped(entry) THEN TotalSizeLoop(Tail(rest), acc)
         ELSE IF entry.size.some
         THEN TotalSizeLoop(Tail(rest), acc + entry.size.val)
         ELSE TotalSizeLoop(Tail(rest), acc)

total_size(fs) == Ok(TotalSizeLoop(fs, 0))

MtreeTypes == {"File", "Directory", "SymbolicLink", "Fifo"}

SizeEntries ==
    {Entry(p, t, sz) :
        p \in ReservedPaths \cup {"./lib.so"},
        t \in {None} \cup {Some(x) : x \in MtreeTypes},
        sz \in {None, Some(10), Some(100)}}

InitOthersSize ==
    /\ files = <<>>
    /\ size_result = Pending

TotalSize ==
    /\ size_result = Pending
    /\ size_result' = total_size(files)
    /\ UNCHANGED <<files, dbVars, decodeVars, loadVars, validateVars>>

-----------------------------------------------------------------------------
(* package.rs: Package::validate                                           *)

\* enum ValidationError
FileNotFound(path) == [tag |-> "FileNotFound", path |-> path]
WrongType(expected, actual) ==
    [tag |-> "WrongType", expected |-> expected, actual |-> actual]
WrongSize(expected, actual) ==
    [tag |-> "WrongSize", expected |-> expected, actual |-> actual]

\* What can be on disk at a path: nothing; something below a directory that
\* may not be searched; something below a path component that is no
\* directory; a regular file, a directory or a fifo of some length; a
\* symbolic link, with its own length, to one of these.
Lens == {50, 60}

PlainNodes ==
    {[kind |-> k] : k \in {"absent", "denied", "notdir"}}
        \cup {[kind |-> k, len |-> l] : k \in {"reg", "dir", "fifo"}, l \in Lens}

LinkNodes ==
    {[kind |-> "lnk", len |-> 50, target |-> t] :
        t \in {[kind |-> "absent"], [kind |-> "reg", len |-> 50],
               [kind |-> "reg", len |-> 60], [kind |-> "dir", len |-> 60]}}

Nodes == PlainNodes \cup LinkNodes

ModeOf(kind) ==
    CASE kind = "reg" -> "S_IFREG"
      [] kind = "dir" -> "S_IFDIR"
      [] kind = "fifo" -> "S_IFIFO"
      [] kind = "lnk" -> "S_IFLNK"

\* line 177, path.metadata(): stat(2), which follows a symbolic link
RECURSIVE Stat(_)
Stat(n) ==
    CASE n.kind = "absent" -> IoErr("NotFound")
      [] n.kind = "denied" -> IoErr("PermissionDenied")
      [] n.kind = "notdir" -> IoErr("Other")
      [] n.kind = "lnk" -> Stat(n.target)
      [] OTHER -> Ok([file_type |-> ModeOf(n.kind), len |-> n.len])

\* the type check without the two SymbolicLink arms
CheckType_LooseSymlink(entry, md) ==
    IF ~entry.file_type.some THEN <<>>
    ELSE LET expected == FileType_from_mtree(entry.file_type.val)
             actual == FileType_from_fs(md.file_type)
         IN  IF expected = "File" /\ actual = "File" THEN <<>>
             ELSE IF expected = "File" THEN <<WrongType("File", actual)>>
             ELSE IF expected = "Directory" /\ actual = "Directory" THEN <<>>
             ELSE IF expected = "Directory" THEN <<WrongType("Directory", actual)>>
             ELSE <<>>

\* lines 186-202: check file type
CheckType(entry, md) ==
    IF ~entry.file_type.some THEN <<>>
    ELSE LET expected == FileType_from_mtree(entry.file_type.val)
             actual == FileType_from_fs(md.file_type)
         IN  IF expected = "File" /\ actual = "File" THEN <<>>
             ELSE IF expected = "File" THEN <<WrongType("File", actual)>>
             ELSE IF expected = "Directory" /\ actual = "Directory" THEN <<>>
             ELSE IF expected = "Directory" THEN <<WrongType("Directory", actual)>>
             ELSE IF expected = "SymbolicLink" /\ actual = "SymbolicLink" THEN <<>>
             ELSE IF expected = "SymbolicLink"
             THEN <<WrongType("SymbolicLink", actual)>>
             ELSE <<>>

\* the size check with expected and actual exchanged
CheckSize_Swapped(entry, md) ==
    IF entry.size.some /\ md.len # entry.size.val
    THEN <<WrongSize(md.len, entry.size.val)>>
    ELSE <<>>

\* lines 204-211: check size
CheckSize(entry, md) ==
    IF entry.size.some /\ md.len # entry.size.val
    THEN <<WrongSize(entry.size.val, md.len)>>
    ELSE <<>>

\* the loop body with every stat error returned, not-found too
ValidateBody_NotFoundReturns(entry, n, errs) ==
    LET md == Stat(n) IN
    IF md.tag = "Err" THEN [errors |-> errs, ret |-> Some(md)]
    ELSE [errors |-> errs \o CheckType(entry, md.val) \o CheckSize(entry, md.val),
          ret |-> None]

\* the loop body with every stat error taken for not-found
ValidateBody_EveryErrNotFound(entry, n, errs) ==
    LET md == Stat(n) IN
    IF md.tag = "Err"
    THEN [errors |-> Append(errs, FileNotFound(entry.path)), ret |-> None]
    ELSE [errors |-> errs \o CheckType(entry, md.val) \o CheckSize(entry, md.val),
          ret |-> None]

\* lines 175-211, the body of the loop for one entry, n being what is on
\* disk at its path and errs the findings so far: the findings after it and,
\* when the body returns from validate, the value returned
ValidateBody(entry, n, errs) ==
    LET md == Stat(n) IN
    IF md.tag = "Err" /\ md.err = "NotFound"
    THEN [errors |-> Append(errs, FileNotFound(entry.path)), ret |-> None]
    ELSE IF md.tag = "Err"
    THEN [errors |-> errs, ret |-> Some(md)]
    ELSE [errors |-> errs \o CheckType(entry, md.val) \o CheckSize(entry, md.val),
          ret |-> None]

ValidateEntries ==
    {Entry(p, t, sz) :
        p \in {"./lib.so", "./bin"},
        t \in {None} \cup {Some(x) : x \in MtreeTypes},
        sz \in {None, Some(50)}}

NoNode == [kind |-> "none"]

InitOthersValidate ==
    /\ vpc = "idle"
    /\ iter = <<>>
    /\ file = None
    /\ node = NoNode
    /\ errors = <<>>
    /\ vresult = Pending

\* lines 172-174: validate is entered; with no entry it returns at once
ValidateCall ==
    /\ vpc = "idle"
    /\ errors' = <<>>
    /\ IF iter = <<>>
       THEN vpc' = "done" /\ vresult' = Ok(<<>>)
       ELSE vpc' = "loop" /\ vresult' = vresult
    /\ UNCHANGED <<iter, file, node, dbVars, decodeVars, loadVars, sizeVars>>

\* one iteration of the loop; after the last one line 213 returns Ok(errors)
ValidateEntry(n) ==
    /\ vpc = "loop"
    /\ LET b == ValidateBody(Head(iter), n, errors) IN
       /\ file' = Some(Head(iter))
       /\ node' = n
       /\ iter' = Tail(iter)
       /\ errors' = b.errors
       /\ IF b.ret.some
          THEN vpc' = "done" /\ vresult' = b.ret.val
          ELSE IF Tail(iter) = <<>>
          THEN vpc' = "done" /\ vresult' = Ok(b.errors)
          ELSE vpc' = "loop" /\ vresult' = vresult
    /\ UNCHANGED <<dbVars, decodeVars, loadVars, sizeVars>>

-----------------------------------------------------------------------------
(* The specifications.                                                     *)

InitSpecDb ==
    /\ InitDb /\ InitOthersDecode /\ InitOthersLoad /\ InitOthersSize
    /\ InitOthersValidate

NextDb ==
    \/ \E flag \in DbUsageFlags : Insert(flag)
    \/ \E flag \in DbUsageFlags : Remove(flag)
    \/ DefaultUsage
    \/ DefaultSignatureLevel
    \/ \E l \in SignatureLevels : SetSignatureLevel(l)
    \/ \E s \in DbStatuses : SetStatus(s)

SpecDb == InitSpecDb /\ [][NextDb]_vars

InitSpecDecode ==
    /\ desc_raw \in Texts
    /\ decoded = Pending
    /\ InitDb /\ InitOthersLoad /\ InitOthersSize /\ InitOthersValidate

NextDecode == FromStr

SpecDecode == InitSpecDecode /\ [][NextDecode]_vars

InitSpecLoad ==
    /\ InitDb /\ InitOthersDecode /\ InitOthersLoad /\ InitOthersSize
    /\ InitOthersValidate

NextLoad ==
    \E path \in PackageDirs, name \in Names, version \in Versions,
       desc_file \in DescFiles, mtree_file \in MtreeFiles :
        FromLocal(path, name, version, desc_file, mtree_file)

SpecLoad == InitSpecLoad /\ [][NextLoad]_vars

InitSpecSize ==
    /\ files \in SeqsUpTo(SizeEntries, MaxFiles)
    /\ size_result = Pending
    /\ InitDb /\ InitOthersDecode /\ InitOthersLoad /\ InitOthersValidate

NextSize == TotalSize

SpecSize == InitSpecSize /\ [][NextSize]_vars

InitSpecValidate ==
    /\ iter \in SeqsUpTo(ValidateEntries, MaxFiles)
    /\ vpc = "idle"
    /\ file = None
    /\ node = NoNode
    /\ errors = <<>>
    /\ vresult = Pending
    /\ InitDb /\ InitOthersDecode /\ InitOthersLoad /\ InitOthersSize

NextValidate ==
    \/ ValidateCall
    \/ \E n \in Nodes : ValidateEntry(n)

SpecValidate == InitSpecValidate /\ [][NextValidate]_vars

-----------------------------------------------------------------------------
(* The claims.                                                             *)

Range(seq) == {seq[i] : i \in DOMAIN seq}

\* C1 (SpecLoad): when the desc file decodes but its name or its version
\* differs from the expected one, from_local fails with
\* InvalidLocalPackage(expected name); a Package is returned only when both
\* the decoded name and the decoded version equal the expected ones.
C1_MismatchFails ==
    loaded.tag # "Pending" =>
        LET read == call.desc_file.tag = "Ok"
            d == from_str(call.desc_file.val)
        IN  /\ (/\ read
                /\ d.tag = "Ok"
                /\ (d.val.name # call.name \/ d.val.version # call.version))
                    => /\ loaded.tag = "Err"
                       /\ loaded.kind = [tag |-> "InvalidLocalPackage",
                                         name |-> call.name]
            /\ loaded.tag = "Ok"
                    => /\ read
                       /\ d.tag = "Ok"
                       /\ d.val.name = call.name
                       /\ d.val.version = call.version

\* C1 witness: the desc file declares version 2.0 under the expected name,
\* the caller expects 1.0, and the load has failed
C1_Witness ==
    /\ loaded.tag = "Err"
    /\ call.desc_file.tag = "Ok"
    /\ from_str(call.desc_file.val).tag = "Ok"
    /\ from_str(call.desc_file.val).val.name = call.name
    /\ from_str(call.desc_file.val).val.version = Version2
    /\ call.version = Version1

\* the first error of the `mtree` file, None when it has none
C8_MtreeError(m) ==
    IF m.tag # "Stream" THEN Some(m.err)
    ELSE LET bad == {i \in DOMAIN m.items : m.items[i].tag = "Err"} IN
         IF bad = {} THEN None
         ELSE Some(m.items[CHOOSE i \in bad : \A j \in bad : i <= j].err)

\* C8 as stated (SpecLoad): every failure of from_local that comes from an
\* I/O error (reading desc; opening, decompressing or parsing mtree) or from
\* a decode error of desc has the kind InvalidLocalPackage(expected name).
C8_EveryFailureWrapped ==
    loaded.tag # "Pending" =>
        LET read == call.desc_file.tag = "Ok"
            d == from_str(call.desc_file.val)
            lower == \/ ~read
                     \/ d.tag = "Err"
                     \/ /\ d.val.name = call.name
                        /\ d.val.version = call.version
                        /\ C8_MtreeError(call.mtree_file).some
        IN  lower => /\ loaded.tag = "Err"
                     /\ loaded.kind = [tag |-> "InvalidLocalPackage",
                                       name |-> call.name]

\* C8 as amended (SpecLoad): a decode error of desc is wrapped, its kind is
\* InvalidLocalPackage(expected name) and the decode error is its cause; an
\* I/O error (reading desc; opening, decompressing or parsing mtree) is
\* returned through the plain conversion of that error, and its kind is not
\* InvalidLocalPackage and names no package.
C8_OnlyDecodeWrapped ==
    loaded.tag # "Pending" =>
        LET read == call.desc_file.tag = "Ok"
            d == from_str(call.desc_file.val)
            m == C8_MtreeError(call.mtree_file)
        IN  /\ ~read =>
                /\ loaded.tag = "Err"
                /\ loaded.kind.tag # "InvalidLocalPackage"
                /\ loaded.cause = call.desc_file.err
            /\ (read /\ d.tag = "Err")
                    => loaded = [tag |-> "Err",
                                 kind |-> [tag |-> "InvalidLocalPackage",
                                           name |-> call.name],
                                 cause |-> d.kind]
            /\ (/\ read
                /\ d.tag = "Ok"
                /\ d.val.name = call.name
                /\ d.val.version = call.version
                /\ m.some)
                    => /\ loaded.tag = "Err"
                       /\ loaded.kind.tag # "InvalidLocalPackage"
                       /\ loaded.cause = m.val

\* C8 witness: the mtree stream of a package whose desc matches holds an
\* item that is an error, and the failure returned is not an
\* InvalidLocalPackage
C8_Witness ==
    /\ loaded.tag = "Err"
    /\ call.desc_file.tag = "Ok"
    /\ from_str(call.desc_file.val).tag = "Ok"
    /\ call.mtree_file.tag = "Stream"
    /\ C8_MtreeError(call.mtree_file).some
    /\ loaded.kind.tag # "InvalidLocalPackage"

C7_OptionalFields == {"base", "license", "reason"}
C7_ListFields ==
    {"groups", "validation", "replaces", "depends", "optdepends", "conflicts",
     "provides"}

C7_Present(text, f) == \E i \in DOMAIN text : text[i].key = KeyLines[f]

\* a section of proper shape whose value lines fit the field it names
C7_SectionOk(s) ==
    /\ IsKeyLine(s.key)
    /\ Len(s.lines) >= 1
    /\ KeyName(s.key) \in FieldNames =>
        LET k == Field(KeyName(s.key)).kind IN
        /\ k \notin VecKinds => Len(s.lines) = 1
        /\ k = "U64" => \A i \in DOMAIN s.lines[1] : IsDigit(s.lines[1][i])
        /\ k = "OptReason" => s.lines[1] \in {<<"0">>, <<"1">>}
        /\ k = "VecValidation" =>
            \A i \in DOMAIN s.lines :
                s.lines[i] \in {<<"n", "o", "n", "e">>, <<"m", "d", "5">>,
                                Sha256Token, <<"p", "g", "p">>}

\* a text that is well formed apart from the optional-valued and list-valued
\* sections it lacks
C7_OtherwiseWellFormed(text) ==
    /\ \A i \in DOMAIN text : C7_SectionOk(text[i])
    /\ \A i, j \in DOMAIN text : text[i].key = text[j].key => i = j
    /\ \A f \in FieldNames \ (C7_OptionalFields \cup C7_ListFields) :
            C7_Present(text, f)

\* C7 as stated (SpecDecode): a desc text that is otherwise well formed but
\* lacks the section of an optional-valued field (base, license, reason) or
\* of a list-valued field (groups, validation, replaces, depends,
\* optdepends, conflicts, provides) decodes successfully, with that field
\* None or the empty list.
C7_AbsentIsDefault ==
    (decoded.tag # "Pending" /\ C7_OtherwiseWellFormed(desc_raw)) =>
        /\ decoded.tag = "Ok"
        /\ \A f \in C7_OptionalFields :
                ~C7_Present(desc_raw, f) => decoded.val[f] = None
        /\ \A f \in C7_ListFields :
                ~C7_Present(desc_raw, f) => decoded.val[f] = <<>>

\* C9 (SpecDb): SYNC, SEARCH, INSTALL and UPGRADE are four distinct single
\* bits, ALL is exactly their union, so every usage value lies within ALL;
\* DbUsage::default() is ALL and SignatureLevel::default() is Inherit.
C9_UsageAlgebra ==
    LET flags == <<SYNC, SEARCH, INSTALL, UPGRADE>> IN
    /\ \A i \in DOMAIN flags :
            /\ flags[i] \in {1, 2, 4, 8, 16, 32, 64, 128}
            /\ Contains(ALL, flags[i])
    /\ \A i, j \in DOMAIN flags : i # j => BitAnd(flags[i], flags[j]) = 0
    /\ ALL = SYNC + SEARCH + INSTALL + UPGRADE
    /\ DbUsage_default = ALL
    /\ SignatureLevel_default = "Inherit"
    /\ Contains(ALL, usage)

\* C9 witness: a database that exists, whose usage went down to SEARCH alone
\* and was then set back to the default
C9_Witness ==
    /\ status = [tag |-> "Exists", valid |-> TRUE]
    /\ usage = DbUsage_default
    /\ Contains(usage, UPGRADE) /\ Contains(usage, SYNC)
    /\ sig_level = "Inherit"

\* what the claim says one entry adds to the total
C6_Counted(entry) ==
    IF /\ entry.file_type = Some("File")
       /\ entry.path \notin {"./.PKGINFO", "./.BUILDINFO", "./.INSTALL"}
       /\ entry.size.some
    THEN entry.size.val
    ELSE 0

RECURSIVE C6_Sum(_, _)
C6_Sum(fs, n) == IF n = 0 THEN 0 ELSE C6_Sum(fs, n - 1) + C6_Counted(fs[n])

\* C6 (SpecSize): total_size returns Ok of the sum of the declared sizes of
\* the entries that are regular files and are none of ./.PKGINFO,
\* ./.BUILDINFO, ./.INSTALL; any other entry and a missing size count zero;
\* it never returns an error.
C6_TotalSize ==
    size_result.tag # "Pending" => size_result = Ok(C6_Sum(files, Len(files)))

\* C6 witness: {./.PKGINFO: file 10, ./lib.so: file 100} has given 100
C6_Witness ==
    /\ files = <<Entry("./.PKGINFO", Some("File"), Some(10)),
                 Entry("./lib.so", Some("File"), Some(100))>>
    /\ size_result = Ok(100)

\* the findings the step adds, and whether it keeps the earlier ones
Added == SubSeq(errors', Len(errors) + 1, Len(errors'))
Kept ==
    /\ Len(errors') >= Len(errors)
    /\ SubSeq(errors', 1, Len(errors)) = errors
WrongTypes(seq) == SelectSeq(seq, LAMBDA e : e.tag = "WrongType")
WrongSizes(seq) == SelectSeq(seq, LAMBDA e : e.tag = "WrongSize")

\* C2 (SpecValidate): an iteration over an entry whose path is not found on
\* disk adds exactly one finding, FileNotFound(path), and validation goes
\* on with the next entry; every iteration that does not abort keeps the
\* findings of the earlier entries, and the list returned is the list
\* accumulated.
C2_NotFoundIsFinding ==
    [][vpc = "loop" =>
        /\ Stat(node') = IoErr("NotFound") =>
            /\ Kept
            /\ Added = <<FileNotFound(Head(iter).path)>>
            /\ iter' = Tail(iter)
            /\ vresult'.tag # "Err"
            /\ Tail(iter) # <<>> => vpc' = "loop"
        /\ vresult'.tag # "Err" => Kept
        /\ vresult'.tag = "Ok" => vresult'.val = errors'
        /\ (vresult'.tag # "Err" /\ Tail(iter) = <<>>) => vresult'.tag = "Ok"
      ]_vars

\* C2 witness: the first entry was missing, the second one was examined and
\* its finding follows the FileNotFound in the list returned
C2_Witness ==
    /\ vpc = "done"
    /\ vresult.tag = "Ok"
    /\ Len(vresult.val) = 2
    /\ vresult.val[1].tag = "FileNotFound"
    /\ vresult.val[2].tag = "WrongSize"

\* C3 as stated (SpecValidate): for an entry that is found and declares a
\* size s, WrongSize{s, l} is recorded exactly when the live length l
\* differs from s, and the entry then yields exactly one finding; an entry
\* with no declared size never yields WrongSize.
C3_ExactlyOneFinding ==
    [][(vpc = "loop" /\ Stat(node').tag = "Ok") =>
        LET entry == Head(iter)
            l == Stat(node').val.len
        IN  /\ entry.size.some =>
                /\ (WrongSize(entry.size.val, l) \in Range(Added))
                        <=> (l # entry.size.val)
                /\ l # entry.size.val => Len(Added) = 1
            /\ ~entry.size.some => WrongSizes(Added) = <<>>
      ]_vars

\* C3 as amended (SpecValidate): for an entry that is found and declares a
\* size s, with l the length stat reports for its path, the entry yields
\* exactly one WrongSize finding, WrongSize{s, l}, when l differs from s and
\* none when l equals s; it is the last finding of the entry, preceded by at
\* most one finding, a WrongType, and it is the only finding when no
\* WrongType is recorded.  An entry with no declared size never yields
\* WrongSize.
C3_OneWrongSize ==
    [][(vpc = "loop" /\ Stat(node').tag = "Ok") =>
        LET entry == Head(iter)
            l == Stat(node').val.len
        IN  /\ (entry.size.some /\ l # entry.size.val) =>
                /\ WrongSizes(Added) = <<WrongSize(entry.size.val, l)>>
                /\ Added = WrongTypes(Added) \o WrongSizes(Added)
                /\ Len(WrongTypes(Added)) <= 1
            /\ (entry.size.some /\ l = entry.size.val) => WrongSizes(Added) = <<>>
            /\ ~entry.size.some => WrongSizes(Added) = <<>>
      ]_vars

\* C3 witness: a regular file declared with size 50 is 60 bytes long on
\* disk, and the one finding is WrongSize{50, 60}
C3_Witness ==
    /\ vpc = "done"
    /\ file = Some(Entry("./lib.so", Some("File"), Some(50)))
    /\ node = [kind |-> "reg", len |-> 60]
    /\ vresult = Ok(<<WrongSize(50, 60)>>)

\* the classification of what stat reports
C4_Live(mode) ==
    CASE mode = "S_IFREG" -> "File"
      [] mode = "S_IFDIR" -> "Directory"
      [] mode = "S_IFLNK" -> "SymbolicLink"
      [] OTHER -> "Other"

\* C4 (SpecValidate): for an entry that is found, a WrongType{expected,
\* actual} finding is recorded exactly when the declared type is File,
\* Directory or SymbolicLink and the live classification (of what stat
\* reports) differs from it, with expected the declared and actual the live
\* type; a declared type that is Other, or no declared type, never yields
\* WrongType.
C4_WrongType ==
    [][(vpc = "loop" /\ Stat(node').tag = "Ok") =>
        LET t == Head(iter).file_type
            a == C4_Live(Stat(node').val.file_type)
        IN  IF /\ t.some
               /\ t.val \in {"File", "Directory", "SymbolicLink"}
               /\ a # t.val
            THEN WrongTypes(Added) = <<WrongType(t.val, a)>>
            ELSE WrongTypes(Added) = <<>>
      ]_vars

\* C4 witness: an entry declared a directory is a regular file on disk, and
\* WrongType{Directory, File} is the finding returned
C4_Witness ==
    /\ vpc = "done"
    /\ file = Some(Entry("./bin", Some("Directory"), None))
    /\ node.kind = "reg"
    /\ vresult = Ok(<<WrongType("Directory", "File")>>)
    /\ iter = <<>>

\* C5 (SpecValidate): a stat failure other than not-found ends validate at
\* that entry with that I/O error as the result, whatever findings there
\* were, and nothing runs after it; of the stat failures only not-found
\* adds a finding.
C5_OtherErrorAborts ==
    [][/\ vpc # "done"
       /\ (vpc = "loop" /\ Stat(node').tag = "Err") =>
            IF Stat(node').err = "NotFound"
            THEN Len(Added) = 1 /\ vresult'.tag # "Err"
            ELSE /\ vresult' = IoErr(Stat(node').err)
                 /\ vpc' = "done"
                 /\ errors' = errors
      ]_vars

\* C5 witness: the first entry left a finding, the stat of the second was
\* denied, and the result is that error
C5_Witness ==
    /\ vpc = "done"
    /\ vresult = IoErr("PermissionDenied")
    /\ node.kind = "denied"
    /\ Len(errors) = 1

\* C10 as stated (SpecValidate): for an entry declared SymbolicLink whose
\* path on disk is a symbolic link to an existing target, the live
\* classification is SymbolicLink, so no WrongType is recorded, and the size
\* compared is the one of the link itself.
C10_LinkIsLink ==
    [][(/\ vpc = "loop"
        /\ Head(iter).file_type = Some("SymbolicLink")
        /\ node'.kind = "lnk"
        /\ node'.target.kind # "absent") =>
            /\ WrongTypes(Added) = <<>>
            /\ Head(iter).size.some =>
                ((WrongSizes(Added) # <<>>) <=> (node'.len # Head(iter).size.val))
      ]_vars

====
